---------------------------- MODULE Spec2Model ----------------------------
(***************************************************************************)
(* A model of uszipcode's record layer (src/uszipcode/model.py):           *)
(*   - CompressedJSONType, the column type that stores a JSON value as a   *)
(*     zlib-compressed blob;                                               *)
(*   - AbstractSimpleZipcode, the record, with its derived attributes,     *)
(*     truthiness, equality, hashing and total ordering;                   *)
(*   - the search engine's by_zipcode and by_coordinates, whose code       *)
(*     (uszipcode/search.py) is not among the sources and is modelled from *)
(*     the specification's section 4.3.                                    *)
(* Three specifications share the module: SpecCodec, SpecRecord and        *)
(* SpecSearch.  Each leaves the other components' variables idle.          *)
(***************************************************************************)
EXTENDS Integers, Sequences, FiniteSets, TLC

VARIABLES
    cvalue,     \* codec: the Python value handed to the column
    cbound,     \* codec: what process_bind_param returned (the stored cell)
    cresult,    \* codec: what process_result_value returned
    cpc,        \* codec: "idle" | "new" | "bound" | "loaded"
    ra,         \* record: the left operand, `self`
    rb,         \* record: the right operand, `other`
    rop,        \* record: the operation last run ("none" before any)
    rout,       \* record: what it returned or raised
    sengine,    \* search: "default" | "custom" (how the engine was built)
    sop,        \* search: the query last run ("none" before any)
    sarg,       \* search: its arguments
    scand,      \* search: the rows the bounding-box pre-filter admitted
    sresult     \* search: the records returned, in order

cvars == <<cvalue, cbound, cresult, cpc>>

rvars == <<ra, rb, rop, rout>>

svars == <<sengine, sop, sarg, scand, sresult>>

vars == <<cvalue, cbound, cresult, cpc, ra, rb, rop, rout,
          sengine, sop, sarg, scand, sresult>>

(***************************************************************************)
(* Python values.  A value is a record [t, n, s, xs]: the tag t names the  *)
(* Python type, n holds the number of an int or a bool, s the characters   *)
(* of a str (a sequence of one-character strings) and xs the items of a    *)
(* list, or the items of a dict in insertion order, each a pair of a key   *)
(* and a value, with pairwise distinct keys.                               *)
(***************************************************************************)
PyNone == [t |-> "null", n |-> 0, s |-> << >>, xs |-> << >>]

PyBool(b) == [t |-> "bool", n |-> IF b THEN 1 ELSE 0, s |-> << >>, xs |-> << >>]

PyInt(n) == [t |-> "int", n |-> n, s |-> << >>, xs |-> << >>]

PyStr(s) == [t |-> "str", n |-> 0, s |-> s, xs |-> << >>]

PyList(xs) == [t |-> "list", n |-> 0, s |-> << >>, xs |-> xs]

PyDict(ps) == [t |-> "dict", n |-> 0, s |-> << >>, xs |-> ps]

\* One item of a dict.
PyPair(k, val) == [t |-> "pair", n |-> 0, s |-> << >>, xs |-> << k, val >>]

KeyOf(p) == p.xs[1]

ValOf(p) == p.xs[2]

\* The number a bool or an int stands for (Python: True == 1, False == 0).
NumOf(x) == x.n

IsNum(x) == x.t \in {"bool", "int"}

RECURSIVE PyEq(_, _)
\* Python's ==  on the values above.
PyEq(x, y) ==
    IF IsNum(x) /\ IsNum(y) THEN NumOf(x) = NumOf(y)
    ELSE IF x.t # y.t THEN FALSE
    ELSE IF x.t = "null" THEN TRUE
    ELSE IF x.t = "str" THEN x.s = y.s
    ELSE IF x.t = "list" THEN
        /\ Len(x.xs) = Len(y.xs)
        /\ \A i \in 1..Len(x.xs) : PyEq(x.xs[i], y.xs[i])
    ELSE \* dict: same keys, equal values, whatever the insertion order
        /\ Len(x.xs) = Len(y.xs)
        /\ \A i \in 1..Len(x.xs) :
             \E j \in 1..Len(y.xs) :
                /\ PyEq(KeyOf(x.xs[i]), KeyOf(y.xs[j]))
                /\ PyEq(ValOf(x.xs[i]), ValOf(y.xs[j]))

(***************************************************************************)
(* Characters and their UTF-8 bytes.  json.dumps keeps ensure_ascii, so    *)
(* the text it returns is ASCII and str.encode("utf-8") maps each          *)
(* character to the byte of its code point.                                *)
(***************************************************************************)
Alphabet ==
    << "0", "1", "2", "3", "4", "5", "6", "7", "8", "9",
       "-", " ", ",", ":", "[", "]", "{", "}", "\"", "\\",
       "a", "e", "f", "k", "l", "n", "r", "s", "t", "u" >>

CodePoints ==
    << 48, 49, 50, 51, 52, 53, 54, 55, 56, 57,
       45, 32, 44, 58, 91, 93, 123, 125, 34, 92,
       97, 101, 102, 107, 108, 110, 114, 115, 116, 117 >>

Ord(c) == CodePoints[CHOOSE i \in 1..Len(Alphabet) : Alphabet[i] = c]

Chr(b) == Alphabet[CHOOSE i \in 1..Len(CodePoints) : CodePoints[i] = b]

IsByteOfAlphabet(b) == \E i \in 1..Len(CodePoints) : CodePoints[i] = b

\* str.encode("utf-8")
EncodeUtf8(text) == [i \in 1..Len(text) |-> Ord(text[i])]

\* bytes.decode("utf-8")
DecodeUtf8(bytes) == [i \in 1..Len(bytes) |-> Chr(bytes[i])]

Digits == << "0", "1", "2", "3", "4", "5", "6", "7", "8", "9" >>

IsDigit(c) == \E i \in 1..10 : Digits[i] = c

DigitValue(c) == (CHOOSE i \in 1..10 : Digits[i] = c) - 1

RECURSIVE NatStr(_)
NatStr(n) == IF n < 10 THEN << Digits[n + 1] >>
             ELSE NatStr(n \div 10) \o << Digits[(n % 10) + 1] >>

\* int.__repr__, which json.dumps uses for an int
IntStr(n) == IF n < 0 THEN << "-" >> \o NatStr(0 - n) ELSE NatStr(n)

(***************************************************************************)
(* json.dumps with the default arguments: ensure_ascii, separators         *)
(* (", ", ": "), no key sorting.  A dict key that is an int is written as  *)
(* the string of its decimal form; a str key is written as it is.          *)
(***************************************************************************)
RECURSIVE EscapeStr(_)
EscapeStr(s) ==
    IF s = << >> THEN << >>
    ELSE (IF Head(s) \in {"\"", "\\"} THEN << "\\", Head(s) >> ELSE << Head(s) >>)
         \o EscapeStr(Tail(s))

DumpStr(s) == << "\"" >> \o EscapeStr(s) \o << "\"" >>

\* The key json.dumps writes for a dict key.
DumpKey(k) ==
    IF k.t = "str" THEN DumpStr(k.s)
    ELSE IF k.t = "int" THEN DumpStr(IntStr(k.n))
    ELSE IF k.t = "bool" THEN DumpStr(IF k.n = 1 THEN << "t", "r", "u", "e" >>
                                              ELSE << "f", "a", "l", "s", "e" >>)
    ELSE DumpStr(<< "n", "u", "l", "l" >>)

RECURSIVE Dumps(_)
RECURSIVE DumpItems(_, _)
RECURSIVE DumpPairs(_, _)
Dumps(x) ==
    IF x.t = "null" THEN << "n", "u", "l", "l" >>
    ELSE IF x.t = "bool" THEN
        (IF x.n = 1 THEN << "t", "r", "u", "e" >> ELSE << "f", "a", "l", "s", "e" >>)
    ELSE IF x.t = "int" THEN IntStr(x.n)
    ELSE IF x.t = "str" THEN DumpStr(x.s)
    ELSE IF x.t = "list" THEN << "[" >> \o DumpItems(x.xs, 1) \o << "]" >>
    ELSE << "{" >> \o DumpPairs(x.xs, 1) \o << "}" >>

DumpItems(xs, i) ==
    IF i > Len(xs) THEN << >>
    ELSE (IF i > 1 THEN << ",", " " >> ELSE << >>)
         \o Dumps(xs[i]) \o DumpItems(xs, i + 1)

DumpPairs(ps, i) ==
    IF i > Len(ps) THEN << >>
    ELSE (IF i > 1 THEN << ",", " " >> ELSE << >>)
         \o DumpKey(KeyOf(ps[i])) \o << ":", " " >> \o Dumps(ValOf(ps[i]))
         \o DumpPairs(ps, i + 1)

(***************************************************************************)
(* json.loads: a recursive-descent parser.  Each parser takes the text and *)
(* a position and returns [ok, v, i]: whether it succeeded, the value, and *)
(* the position after it.                                                  *)
(***************************************************************************)
ParseFail == [ok |-> FALSE, v |-> PyNone, i |-> 0]

ParseOk(val, next) == [ok |-> TRUE, v |-> val, i |-> next]

At(s, i) == IF i <= Len(s) THEN s[i] ELSE "EOF"

RECURSIVE SkipWs(_, _)
SkipWs(s, i) == IF At(s, i) = " " THEN SkipWs(s, i + 1) ELSE i

Matches(s, i, word) ==
    /\ i + Len(word) - 1 <= Len(s)
    /\ \A j \in 1..Len(word) : s[i + j - 1] = word[j]

RECURSIVE ParseStrBody(_, _, _)
\* After the opening quote: the characters up to the closing quote.
ParseStrBody(s, i, acc) ==
    IF i > Len(s) THEN ParseFail
    ELSE IF s[i] = "\"" THEN ParseOk(PyStr(acc), i + 1)
    ELSE IF s[i] = "\\" THEN
        (IF At(s, i + 1) \in {"\"", "\\"}
            THEN ParseStrBody(s, i + 2, Append(acc, s[i + 1]))
            ELSE ParseFail)
    ELSE ParseStrBody(s, i + 1, Append(acc, s[i]))

RECURSIVE ParseNat(_, _, _)
ParseNat(s, i, acc) ==
    IF IsDigit(At(s, i)) THEN ParseNat(s, i + 1, 10 * acc + DigitValue(s[i]))
    ELSE ParseOk(PyInt(acc), i)

ParseNumber(s, i) ==
    IF At(s, i) = "-" THEN
        (IF IsDigit(At(s, i + 1))
            THEN LET r == ParseNat(s, i + 1, 0) IN ParseOk(PyInt(0 - r.v.n), r.i)
            ELSE ParseFail)
    ELSE ParseNat(s, i, 0)

\* dict[key] = val: a key already present keeps its place and takes the value.
DictSet(ps, key, val) ==
    IF \E j \in 1..Len(ps) : KeyOf(ps[j]) = key
    THEN [j \in 1..Len(ps) |-> IF KeyOf(ps[j]) = key THEN PyPair(key, val) ELSE ps[j]]
    ELSE Append(ps, PyPair(key, val))

RECURSIVE ParseValue(_, _)
RECURSIVE ParseItems(_, _, _)
RECURSIVE ParsePairs(_, _, _)
ParseValue(s, i0) ==
    LET i == SkipWs(s, i0)
        c == At(s, i)
    IN  IF Matches(s, i, << "n", "u", "l", "l" >>) THEN ParseOk(PyNone, i + 4)
        ELSE IF Matches(s, i, << "t", "r", "u", "e" >>) THEN ParseOk(PyBool(TRUE), i + 4)
        ELSE IF Matches(s, i, << "f", "a", "l", "s", "e" >>)
            THEN ParseOk(PyBool(FALSE), i + 5)
        ELSE IF c = "\"" THEN ParseStrBody(s, i + 1, << >>)
        ELSE IF c = "-" \/ IsDigit(c) THEN ParseNumber(s, i)
        ELSE IF c = "[" THEN
            (IF At(s, SkipWs(s, i + 1)) = "]"
                THEN ParseOk(PyList(<< >>), SkipWs(s, i + 1) + 1)
                ELSE ParseItems(s, i + 1, << >>))
        ELSE IF c = "{" THEN
            (IF At(s, SkipWs(s, i + 1)) = "}"
                THEN ParseOk(PyDict(<< >>), SkipWs(s, i + 1) + 1)
                ELSE ParsePairs(s, i + 1, << >>))
        ELSE ParseFail

\* After "[" or ",": an item, then "," and more items, or "]".
ParseItems(s, i, acc) ==
    LET r == ParseValue(s, i) IN
    IF ~r.ok THEN ParseFail
    ELSE LET j == SkipWs(s, r.i) IN
         IF At(s, j) = "," THEN ParseItems(s, j + 1, Append(acc, r.v))
         ELSE IF At(s, j) = "]" THEN ParseOk(PyList(Append(acc, r.v)), j + 1)
         ELSE ParseFail

\* After "{" or ",": "key": value, then "," and more pairs, or "}".
ParsePairs(s, i0, acc) ==
    LET i == SkipWs(s, i0) IN
    IF At(s, i) # "\"" THEN ParseFail
    ELSE LET k == ParseStrBody(s, i + 1, << >>) IN
         IF ~k.ok THEN ParseFail
         ELSE LET c == SkipWs(s, k.i) IN
              IF At(s, c) # ":" THEN ParseFail
              ELSE LET r == ParseValue(s, c + 1) IN
                   IF ~r.ok THEN ParseFail
                   ELSE LET j == SkipWs(s, r.i)
                            next == DictSet(acc, k.v, r.v)
                        IN  IF At(s, j) = "," THEN ParsePairs(s, j + 1, next)
                            ELSE IF At(s, j) = "}" THEN ParseOk(PyDict(next), j + 1)
                            ELSE ParseFail

\* json.loads: one value, then nothing but whitespace.
Loads(text) ==
    LET r == ParseValue(text, 1) IN
    IF r.ok /\ SkipWs(text, r.i) = Len(text) + 1
    THEN [ok |-> TRUE, v |-> r.v]
    ELSE [ok |-> FALSE, v |-> PyNone]


(***************************************************************************)
(* zlib.compress / zlib.decompress.  The library is outside the            *)
(* repository; it is modelled as a lossless stream format with the         *)
(* properties the codec relies on: a header byte, the payload as           *)
(* <<run length, byte>> pairs, and a trailing checksum of the payload that *)
(* decompress verifies.                                                    *)
(***************************************************************************)
ZlibHeader == 120

AdlerModulus == 65521

RECURSIVE RunLength(_, _, _)
\* The length of the run of byte b in bytes that starts at position i.
RunLength(bytes, i, b) ==
    IF i <= Len(bytes) /\ bytes[i] = b THEN 1 + RunLength(bytes, i + 1, b) ELSE 0

RECURSIVE Deflate(_, _)
Deflate(bytes, i) ==
    IF i > Len(bytes) THEN << >>
    ELSE LET n == RunLength(bytes, i, bytes[i])
         IN  << n, bytes[i] >> \o Deflate(bytes, i + n)

RECURSIVE Inflate(_, _)
Inflate(runs, i) ==
    IF i + 1 > Len(runs) THEN << >>
    ELSE [j \in 1..runs[i] |-> runs[i + 1]] \o Inflate(runs, i + 2)

RECURSIVE ByteSum(_, _)
ByteSum(bytes, i) == IF i > Len(bytes) THEN 0 ELSE bytes[i] + ByteSum(bytes, i + 1)

Checksum(bytes) == (1 + ByteSum(bytes, 1)) % AdlerModulus

ZlibCompress(bytes) == << ZlibHeader >> \o Deflate(bytes, 1) \o << Checksum(bytes) >>

\* [ok, bytes]: ok is FALSE where zlib.decompress raises zlib.error.
ZlibDecompress(blob) ==
    IF Len(blob) < 2 \/ blob[1] # ZlibHeader \/ (Len(blob) % 2) # 0
    THEN [ok |-> FALSE, bytes |-> << >>]
    ELSE LET bytes == Inflate(SubSeq(blob, 2, Len(blob) - 1), 1)
         IN  IF Checksum(bytes) = blob[Len(blob)]
             THEN [ok |-> TRUE, bytes |-> bytes]
             ELSE [ok |-> FALSE, bytes |-> << >>]

(***************************************************************************)
(* CompressedJSONType.  A bound parameter or a database cell is            *)
(* [isNone, bytes]: SQL NULL, or a binary value.  What a call returns is   *)
(* [raised, v]: the exception raised ("" for none) and the value.          *)
(***************************************************************************)
NullCell == [isNone |-> TRUE, bytes |-> << >>]

BlobCell(bytes) == [isNone |-> FALSE, bytes |-> bytes]

Returned(val) == [raised |-> "", v |-> val]

Raised(exc) == [raised |-> exc, v |-> PyNone]

\* A mutant of process_bind_param: None is serialized like any other value.
process_bind_param_compresses_none(value) ==
    BlobCell(ZlibCompress(EncodeUtf8(Dumps(value))))

process_bind_param(value) ==
    IF value.t = "null" THEN NullCell
    ELSE BlobCell(ZlibCompress(EncodeUtf8(Dumps(value))))

process_result_value(cell) ==
    IF cell.isNone THEN Returned(PyNone)
    ELSE LET z == ZlibDecompress(cell.bytes) IN
         IF ~z.ok THEN Raised("zlib.error")
         ELSE IF \E i \in 1..Len(z.bytes) : ~IsByteOfAlphabet(z.bytes[i])
              THEN Raised("UnicodeDecodeError")
         ELSE LET r == Loads(DecodeUtf8(z.bytes)) IN
              IF r.ok THEN Returned(r.v) ELSE Raised("JSONDecodeError")

(***************************************************************************)
(* The values the codec is run on: scalars, flat lists and dicts, and      *)
(* lists and dicts of those.  A container holds at most MaxLen items.      *)
(***************************************************************************)
MaxLen == 2

SeqsUpTo(S, n) == UNION { [1..m -> S] : m \in 0..n }

TopAtoms ==
    { PyNone, PyBool(TRUE), PyBool(FALSE), PyInt(0), PyInt(-7), PyInt(120),
      PyStr(<< >>), PyStr(<< "a" >>), PyStr(<< "1" >>), PyStr(<< "\\" >>),
      PyStr(<< "\"", "a", "\\", "\"" >>), PyStr(<< "n", "u", "l", "l" >>) }

ElemAtoms == { PyNone, PyInt(-7), PyStr(<< "a", "\"" >>) }

\* Dict keys: two strings and an int whose decimal form is one of them.
KeySeq == << PyStr(<< "k" >>), PyStr(<< "1" >>), PyInt(1) >>

\* The strictly increasing sequences of m indices into KeySeq.
KeyChoices(m) ==
    { ks \in [1..m -> 1..Len(KeySeq)] : \A i \in 1..m, j \in 1..m : i < j => ks[i] < ks[j] }

PairSeqs(V, n) ==
    UNION { UNION { { [i \in 1..m |-> PyPair(KeySeq[ks[i]], vs[i])] : vs \in [1..m -> V] }
                    : ks \in KeyChoices(m) }
            : m \in 0..(IF n < Len(KeySeq) THEN n ELSE Len(KeySeq)) }

ListsOf(V, n) == { PyList(xs) : xs \in SeqsUpTo(V, n) }

DictsOf(V, n) == { PyDict(ps) : ps \in PairSeqs(V, n) }

FlatValues == ListsOf(ElemAtoms, MaxLen) \cup DictsOf(ElemAtoms, MaxLen)

\* What a nested container holds: atoms, and containers of at most one item.
InnerValues == ElemAtoms \cup ListsOf(ElemAtoms, 1) \cup DictsOf(ElemAtoms, 1)

NestedValues == ListsOf(InnerValues, MaxLen) \cup DictsOf(InnerValues, MaxLen)

CodecValues == TopAtoms \cup FlatValues \cup NestedValues

(***************************************************************************)
(* The codec's state machine: a value is written to a column               *)
(* (process_bind_param) and read back (process_result_value).              *)
(***************************************************************************)
ProcessBindParam ==
    /\ cpc = "new"
    /\ cbound' = process_bind_param(cvalue)
    /\ cpc' = "bound"
    /\ UNCHANGED << cvalue, cresult, rvars, svars >>

ProcessResultValue ==
    /\ cpc = "bound"
    /\ cresult' = process_result_value(cbound)
    /\ cpc' = "loaded"
    /\ UNCHANGED << cvalue, cbound, rvars, svars >>

CodecNext == ProcessBindParam \/ ProcessResultValue

(***************************************************************************)
(* AbstractSimpleZipcode.  A column that may be None is [some, s] for a    *)
(* str (s the characters) and [some, n] for a number.  A record carries    *)
(* the columns the operations below read.                                  *)
(***************************************************************************)
None == [some |-> FALSE, s |-> << >>]

Some(s) == [some |-> TRUE, s |-> s]

NoNumber == [some |-> FALSE, n |-> 0]

Number(n) == [some |-> TRUE, n |-> n]

Zipcode(zipcode, state, population, lat, lng) ==
    [zipcode |-> zipcode, state |-> state, population |-> population,
     lat |-> lat, lng |-> lng]

\* Zipcode(): every column None.
EmptyZipcode == Zipcode(None, None, NoNumber, NoNumber, NoNumber)

\* What an operation on records returns or raises: the exception raised
\* ("" for none), and the bool, the numbers, the str or the keys returned.
NoOut == [raised |-> "", b |-> FALSE, n |-> 0, m |-> 0, s |-> None, keys |-> << >>]

ReturnBool(b) == [NoOut EXCEPT !.b = b]

ReturnInt(n) == [NoOut EXCEPT !.n = n]

ReturnStr(s) == [NoOut EXCEPT !.s = s]

ReturnKeys(keys) == [NoOut EXCEPT !.keys = keys]

Raise(exc) == [NoOut EXCEPT !.raised = exc]

(***************************************************************************)
(* str, as the record's methods use it.                                    *)
(***************************************************************************)
RECURSIVE StrLt(_, _)
\* str.__lt__: by code point, the shorter of two strings that agree first.
StrLt(s, t) ==
    IF t = << >> THEN FALSE
    ELSE IF s = << >> THEN TRUE
    ELSE IF Ord(Head(s)) < Ord(Head(t)) THEN TRUE
    ELSE IF Ord(Head(s)) > Ord(Head(t)) THEN FALSE
    ELSE StrLt(Tail(s), Tail(t))

LowerCase == << "n", "y", "z", "c", "a" >>

UpperCase == << "N", "Y", "Z", "C", "A" >>

UpperChar(c) ==
    IF \E i \in 1..Len(LowerCase) : LowerCase[i] = c
    THEN UpperCase[CHOOSE i \in 1..Len(LowerCase) : LowerCase[i] = c]
    ELSE c

\* str.upper
Upper(s) == [i \in 1..Len(s) |-> UpperChar(s[i])]

HashModulus == 7

NoneHash == 3

RECURSIVE StrHash(_)
\* hash(str): a function of the characters; distinct strings may collide.
StrHash(s) ==
    IF s = << >> THEN 0
    ELSE (31 * StrHash(Tail(s)) + Ord(Head(s))) % HashModulus

\* hash(x) for x a str or None.
PyHash(x) == IF x.some THEN StrHash(x.s) ELSE NoneHash

\* The static table state_abbr.MAPPER_STATE_ABBR_SHORT_TO_LONG (two of its rows).
MAPPER_STATE_ABBR_SHORT_TO_LONG ==
    { << << "N", "Y" >>, << "N", "e", "w", " ", "Y", "o", "r", "k" >> >>,
      << << "C", "A" >>, << "C", "a", "l", "i", "f", "o", "r", "n", "i", "a" >> >> }

\* dict.get(key): the value, or None.
MapperGet(key) ==
    IF \E row \in MAPPER_STATE_ABBR_SHORT_TO_LONG : row[1] = key
    THEN Some((CHOOSE row \in MAPPER_STATE_ABBR_SHORT_TO_LONG : row[1] = key)[2])
    ELSE None

(***************************************************************************)
(* The record's methods.                                                   *)
(***************************************************************************)
state_abbr(self) ==
    IF ~self.state.some THEN Raise("AttributeError")   \* None has no .upper
    ELSE ReturnStr(Some(Upper(self.state.s)))

state_long(self) ==
    IF ~self.state.some THEN Raise("AttributeError")   \* None has no .upper
    ELSE ReturnStr(MapperGet(Upper(self.state.s)))

\* A mutant of __bool__: the truth value of the zipcode itself.
__bool__of_zipcode(self) == ReturnBool(self.zipcode.some /\ self.zipcode.s # << >>)

__bool__(self) == ReturnBool(self.zipcode.some)

RECURSIVE DecimalValue(_, _)
DecimalValue(s, acc) ==
    IF s = << >> THEN acc ELSE DecimalValue(Tail(s), 10 * acc + DigitValue(Head(s)))

\* A mutant of __lt__: the zipcodes are compared as numbers.
__lt__numeric(self, other) ==
    IF ~self.zipcode.some \/ ~other.zipcode.some THEN Raise("ValueError")
    ELSE ReturnBool(DecimalValue(self.zipcode.s, 0) < DecimalValue(other.zipcode.s, 0))

\* A mutant of __lt__: only self's zipcode is checked; str < None then
\* raises TypeError.
__lt__checks_self_only(self, other) ==
    IF ~self.zipcode.some THEN Raise("ValueError")
    ELSE IF ~other.zipcode.some THEN Raise("TypeError")
    ELSE ReturnBool(StrLt(self.zipcode.s, other.zipcode.s))

__lt__(self, other) ==
    IF ~self.zipcode.some \/ ~other.zipcode.some THEN Raise("ValueError")
    ELSE ReturnBool(StrLt(self.zipcode.s, other.zipcode.s))

\* A mutant of __eq__: the state is compared too.
__eq__with_state(self, other) ==
    ReturnBool(self.zipcode = other.zipcode /\ self.state = other.state)

\* A mutant of __eq__: an empty record is rejected, as __lt__ rejects it.
__eq__rejects_empty(self, other) ==
    IF ~self.zipcode.some \/ ~other.zipcode.some THEN Raise("ValueError")
    ELSE ReturnBool(self.zipcode = other.zipcode)

__eq__(self, other) == ReturnBool(self.zipcode = other.zipcode)

\* object.__ne__: the negation of __eq__.
__ne__(self, other) ==
    LET r == __eq__(self, other) IN
    IF r.raised # "" THEN r ELSE ReturnBool(~r.b)

__hash__(self) == ReturnInt(PyHash(self.zipcode))

\* functools.total_ordering, from __lt__: _gt_from_lt, _le_from_lt, _ge_from_lt.
__gt__(self, other) ==
    LET r == __lt__(self, other) IN
    IF r.raised # "" THEN r
    ELSE IF r.b THEN ReturnBool(FALSE)
    ELSE __ne__(self, other)

__le__(self, other) ==
    LET r == __lt__(self, other) IN
    IF r.raised # "" THEN r
    ELSE IF r.b THEN ReturnBool(TRUE)
    ELSE __eq__(self, other)

__ge__(self, other) ==
    LET r == __lt__(self, other) IN
    IF r.raised # "" THEN r ELSE ReturnBool(~r.b)

(***************************************************************************)
(* to_json.  It calls self.to_OrderedDict, so Python looks the name up on  *)
(* the instance's classes: AbstractSimpleZipcode and the declarative Base. *)
(***************************************************************************)
\* The names the class body of AbstractSimpleZipcode defines.
ZipcodeClassNames ==
    { "zipcode", "zipcode_type", "major_city", "post_office_city",
      "common_city_list", "county", "state", "lat", "lng", "timezone",
      "radius_in_miles", "area_code_list", "population", "population_density",
      "land_area_in_sqmi", "water_area_in_sqmi", "housing_units",
      "occupied_housing_units", "median_home_value", "median_household_income",
      "bounds_west", "bounds_east", "bounds_north", "bounds_south",
      "_settings_major_attrs", "city", "bounds", "state_abbr", "state_long",
      "__bool__", "__lt__", "__eq__", "__hash__", "dist_from", "to_json", "glance" }

\* The names orm.declarative_base() gives its class.
Base == { "metadata", "registry", "__init__", "__mapper__", "__table__" }

HasAttr(name) == name \in ZipcodeClassNames \cup Base

\* The mapping the specification's to_serializable describes, as its keys in
\* key order: the attributes the record model carries, the derived ones
\* included, without those whose value is None unless include_null.
SerializableKeys == << "lat", "lng", "population", "state", "state_abbr", "state_long", "zipcode" >>

AttrIsNull(self, key) ==
    IF key = "lat" THEN ~self.lat.some
    ELSE IF key = "lng" THEN ~self.lng.some
    ELSE IF key = "population" THEN ~self.population.some
    ELSE IF key = "state" THEN ~self.state.some
    ELSE IF key = "state_abbr" THEN ~self.state.some
    ELSE IF key = "state_long" THEN ~self.state.some \/ ~MapperGet(Upper(self.state.s)).some
    ELSE ~self.zipcode.some

to_serializable(self, include_null) ==
    SelectSeq(SerializableKeys, LAMBDA key : include_null \/ ~AttrIsNull(self, key))

to_json(self, include_null) ==
    IF ~HasAttr("to_OrderedDict") THEN Raise("AttributeError")
    ELSE ReturnKeys(to_serializable(self, include_null))

(***************************************************************************)
(* The records the operations are run on, and the operations as actions.   *)
(***************************************************************************)
MaxZipLen == 2

ZipChars == { "1", "2" }

ZipStrings == UNION { [1..m -> ZipChars] : m \in 0..MaxZipLen }

Zipcodes == { None } \cup { Some(z) : z \in ZipStrings }

States == { None, Some(<< "N", "Y" >>), Some(<< "n", "y" >>), Some(<< "z", "z" >>) }

Populations == { NoNumber, Number(0) }

Records ==
    { Zipcode(z, st, pop, NoNumber, NoNumber) :
        z \in Zipcodes, st \in States, pop \in Populations }

Run(op, out) ==
    /\ rop = "none"
    /\ rop' = op
    /\ rout' = out
    /\ UNCHANGED << ra, rb, cvars, svars >>

Lt == Run("lt", __lt__(ra, rb))

Le == Run("le", __le__(ra, rb))

Gt == Run("gt", __gt__(ra, rb))

Ge == Run("ge", __ge__(ra, rb))

Eq == Run("eq", __eq__(ra, rb))

Ne == Run("ne", __ne__(ra, rb))

\* hash(a), hash(b)
Hash ==
    LET ha == __hash__(ra)
        hb == __hash__(rb)
    IN  Run("hash", [ha EXCEPT !.m = hb.n])

Bool == Run("bool", __bool__(ra))

StateAbbr == Run("state_abbr", state_abbr(ra))

StateLong == Run("state_long", state_long(ra))

ToJson == \E include_null \in BOOLEAN :
    Run(IF include_null THEN "to_json" ELSE "to_json_no_null", to_json(ra, include_null))

RecordNext ==
    \/ Lt \/ Le \/ Gt \/ Ge \/ Eq \/ Ne \/ Hash
    \/ Bool \/ StateAbbr \/ StateLong \/ ToJson

(***************************************************************************)
(* dist_from: haversine((self.lat, self.lng), (lat, lng), unit).           *)
(* Coordinates are whole degrees.  The haversine of the central angle is   *)
(*   a = sin^2(dlat/2) + cos(lat1) * cos(lat2) * sin^2(dlng/2)             *)
(* in millionths, from tables of sin^2(x/2) (x = 0..180 degrees, in        *)
(* millionths) and cos(x) (x = 0..90 degrees, in thousandths).  The        *)
(* central angle is the least whole number of degrees whose haversine is   *)
(* at least a, and the distance is that angle times the length of one      *)
(* degree of a great circle, in tenths of the unit.                        *)
(***************************************************************************)
HaversineMillionths ==
    <<
       0, 76, 305, 685, 1218, 1903, 2739, 3727, 4866, 6156, 7596, 9186,
       10926, 12815, 14852, 17037, 19369, 21848, 24472, 27241, 30154, 33210, 36408, 39748,
       43227, 46846, 50603, 54497, 58526, 62690, 66987, 71416, 75976, 80665, 85481, 90424,
       95492, 100682, 105995, 111427, 116978, 122645, 128428, 134323, 140330, 146447, 152671, 159001,
       165435, 171970, 178606, 185340, 192169, 199092, 206107, 213212, 220404, 227680, 235040, 242481,
       250000, 257595, 265264, 273005, 280814, 288691, 296632, 304634, 312697, 320816, 328990, 337216,
       345492, 353814, 362181, 370590, 379039, 387524, 396044, 404596, 413176, 421783, 430413, 439065,
       447736, 456422, 465122, 473832, 482550, 491274, 500000, 508726, 517450, 526168, 534878, 543578,
       552264, 560935, 569587, 578217, 586824, 595404, 603956, 612476, 620961, 629410, 637819, 646186,
       654508, 662784, 671010, 679184, 687303, 695366, 703368, 711309, 719186, 726995, 734736, 742405,
       750000, 757519, 764960, 772320, 779596, 786788, 793893, 800908, 807831, 814660, 821394, 828030,
       834565, 840999, 847329, 853553, 859670, 865677, 871572, 877355, 883022, 888573, 894005, 899318,
       904508, 909576, 914519, 919335, 924024, 928584, 933013, 937310, 941474, 945503, 949397, 953154,
       956773, 960252, 963592, 966790, 969846, 972759, 975528, 978152, 980631, 982963, 985148, 987185,
       989074, 990814, 992404, 993844, 995134, 996273, 997261, 998097, 998782, 999315, 999695, 999924,
       1000000 >>

CosineThousandths ==
    <<
       1000, 1000, 999, 999, 998, 996, 995, 993, 990, 988, 985, 982,
       978, 974, 970, 966, 961, 956, 951, 946, 940, 934, 927, 921,
       914, 906, 899, 891, 883, 875, 866, 857, 848, 839, 829, 819,
       809, 799, 788, 777, 766, 755, 743, 731, 719, 707, 695, 682,
       669, 656, 643, 629, 616, 602, 588, 574, 559, 545, 530, 515,
       500, 485, 469, 454, 438, 423, 407, 391, 375, 358, 342, 326,
       309, 292, 276, 259, 242, 225, 208, 191, 174, 156, 139, 122,
       105, 87, 70, 52, 35, 17, 0 >>

Abs(x) == IF x < 0 THEN 0 - x ELSE x

\* sin^2(d/2) in millionths, for a difference of d degrees.
HalfAngleSinSquared(d) ==
    LET w == Abs(d) % 360
        x == IF w > 180 THEN 360 - w ELSE w
    IN  HaversineMillionths[x + 1]

Cosine(lat) == CosineThousandths[Abs(lat) + 1]

\* Tenths of a mile, and of a kilometre, in one degree of a great circle.
MilesPerDegree == 691

KilometersPerDegree == 1112

UnitPerDegree(unit) == IF unit = "mi" THEN MilesPerDegree ELSE KilometersPerDegree

RECURSIVE AngleFrom(_, _)
AngleFrom(a, x) ==
    IF HaversineMillionths[x + 1] >= a THEN x ELSE AngleFrom(a, x + 1)

\* The least whole number of degrees whose haversine is at least a.
CentralAngle(a) == AngleFrom(a, 0)

\* The distance between two points, in tenths of the unit.
haversine(lat1, lng1, lat2, lng2, unit) ==
    LET a == HalfAngleSinSquared(lat2 - lat1)
             + (((Cosine(lat1) * Cosine(lat2)) \div 1000)
                  * HalfAngleSinSquared(lng2 - lng1)) \div 1000
        capped == IF a > 1000000 THEN 1000000 ELSE a
    IN  CentralAngle(capped) * UnitPerDegree(unit)

\* Called on a record whose lat and lng are set.
dist_from(self, lat, lng, unit) == haversine(self.lat.n, self.lng.n, lat, lng, unit)

(***************************************************************************)
(* The search engine (uszipcode/search.py), from the specification's       *)
(* section 4.3.  The record store is a table of rows keyed by zipcode; the *)
(* engine is built on the default store or on a caller's engine over the   *)
(* same table.                                                             *)
(***************************************************************************)
Str5(a, b, c, d, e) == Some(<< a, b, c, d, e >>)

\* The rows of the table, in key order.  One row has no coordinates.
Dataset ==
    << Zipcode(Str5("0", "2", "1", "0", "1"), Some(<< "M", "A" >>), Number(5000), Number(42), Number(-71)),
       Zipcode(Str5("0", "9", "0", "0", "1"), Some(<< "A", "E" >>), NoNumber, NoNumber, NoNumber),
       Zipcode(Str5("1", "0", "0", "0", "1"), Some(<< "N", "Y" >>), Number(21000), Number(41), Number(-74)),
       Zipcode(Str5("1", "0", "0", "0", "2"), Some(<< "N", "Y" >>), Number(81000), Number(41), Number(-74)),
       Zipcode(Str5("1", "9", "1", "0", "4"), Some(<< "P", "A" >>), Number(51000), Number(40), Number(-75)),
       Zipcode(Str5("6", "0", "6", "0", "1"), Some(<< "I", "L" >>), Number(0), Number(42), Number(-88)),
       Zipcode(Str5("9", "0", "0", "0", "1"), Some(<< "C", "A" >>), Number(57000), Number(34), Number(-118)) >>

\* The rows an engine reads: the same table, however the engine was built.
Rows(engine) == Dataset

RowSet(engine) == { Rows(engine)[i] : i \in 1..Len(Rows(engine)) }

IsPrefix(p, s) == Len(p) <= Len(s) /\ SubSeq(s, 1, Len(p)) = p

\* A mutant of by_zipcode: the first row whose key starts with the code.
by_zipcode_by_prefix(engine, code) ==
    LET hits == SelectSeq(Rows(engine), LAMBDA r : IsPrefix(code, r.zipcode.s))
    IN  IF hits = << >> THEN EmptyZipcode ELSE hits[1]

\* Exact key lookup: the row, or the empty record.
by_zipcode(engine, code) ==
    LET hits == SelectSeq(Rows(engine), LAMBDA r : r.zipcode = Some(code))
    IN  IF hits = << >> THEN EmptyZipcode ELSE hits[1]

\* Step 1, the bounding-box pre-filter: the rows whose lat and lng lie in
\* the box around (lat, lng).  A row with no coordinates is in no box.
InBox(r, lat, lng, dlat, dlng) ==
    /\ r.lat.some /\ r.lng.some
    /\ lat - dlat <= r.lat.n /\ r.lat.n <= lat + dlat
    /\ lng - dlng <= r.lng.n /\ r.lng.n <= lng + dlng

BoundingBox(engine, lat, lng, dlat, dlng) ==
    { r \in RowSet(engine) : InBox(r, lat, lng, dlat, dlng) }

\* radius is in whole units, distances in tenths.
Within(r, lat, lng, radius, unit) == dist_from(r, lat, lng, unit) <= 10 * radius

\* The box over-covers the radius: it holds every row within the radius.
\* (The specification leaves the sizing formula open and fixes this much.)
Covers(engine, lat, lng, dlat, dlng, radius, unit) ==
    \A r \in RowSet(engine) :
        r.lat.some /\ r.lng.some /\ Within(r, lat, lng, radius, unit)
            => InBox(r, lat, lng, dlat, dlng)

\* Step 2, the exact filter.
ExactFilter(cands, lat, lng, radius, unit) ==
    { r \in cands : Within(r, lat, lng, radius, unit) }

\* Step 3: nearest first, ties by zipcode ascending.
Nearer(r, o, lat, lng, unit) ==
    \/ dist_from(r, lat, lng, unit) < dist_from(o, lat, lng, unit)
    \/ /\ dist_from(r, lat, lng, unit) = dist_from(o, lat, lng, unit)
       /\ StrLt(r.zipcode.s, o.zipcode.s)

RECURSIVE SortByDistance(_, _, _, _)
SortByDistance(S, lat, lng, unit) ==
    IF S = {} THEN << >>
    ELSE LET first == CHOOSE r \in S : \A o \in S \ {r} : Nearer(r, o, lat, lng, unit)
         IN  << first >> \o SortByDistance(S \ {first}, lat, lng, unit)

RECURSIVE SortByZipcode(_)
SortByZipcode(S) ==
    IF S = {} THEN << >>
    ELSE LET first == CHOOSE r \in S : \A o \in S \ {r} : StrLt(r.zipcode.s, o.zipcode.s)
         IN  << first >> \o SortByZipcode(S \ {first})

\* Step 4: at most `returns` rows.
Paginate(rows, returns) == SubSeq(rows, 1, IF returns < Len(rows) THEN returns ELSE Len(rows))

\* A mutant of by_coordinates: the cap is applied to the candidates, in key
\* order, before the exact filter and the sort.
by_coordinates_paginates_first(cands, lat, lng, radius, unit, returns) ==
    LET page == Paginate(SortByZipcode(cands), returns)
        kept == ExactFilter({ page[i] : i \in 1..Len(page) }, lat, lng, radius, unit)
    IN  SortByDistance(kept, lat, lng, unit)

\* Steps 2 to 4 on the candidates of step 1.
by_coordinates(cands, lat, lng, radius, unit, returns) ==
    Paginate(SortByDistance(ExactFilter(cands, lat, lng, radius, unit), lat, lng, unit),
             returns)

(***************************************************************************)
(* The queries as actions.  An engine is built, then asked one query.      *)
(***************************************************************************)
MaxReturns == 3

QueryCodes ==
    { << "1", "0", "0", "0", "1" >>, << "0", "9", "0", "0", "1" >>,
      << "9", "0", "0", "0", "1" >>, << "9", "9", "9", "9", "9" >>,
      << "1", "0", "0" >>, << >> }

QueryLats == { 34, 40, 41, 45 }

QueryLngs == { -118, -88, -74, -73 }

QueryRadii == { 50, 150, 800, 3000 }

Units == { "mi", "km" }

BoxDeltas == { 1, 3, 12, 45, 180 }

NoArg == [code |-> << >>, lat |-> 0, lng |-> 0, radius |-> 0, unit |-> "mi", returns |-> 0]

ByZipcode ==
    \E code \in QueryCodes :
        /\ sop = "none"
        /\ sop' = "by_zipcode"
        /\ sarg' = [NoArg EXCEPT !.code = code]
        /\ sresult' = << by_zipcode(sengine, code) >>
        /\ UNCHANGED << sengine, scand, cvars, rvars >>

ByCoordinates ==
    \E lat \in QueryLats, lng \in QueryLngs, radius \in QueryRadii,
       unit \in Units, returns \in 1..MaxReturns,
       dlat \in BoxDeltas, dlng \in BoxDeltas :
        /\ sop = "none"
        /\ Covers(sengine, lat, lng, dlat, dlng, radius, unit)
        /\ sop' = "by_coordinates"
        /\ sarg' = [NoArg EXCEPT !.lat = lat, !.lng = lng, !.radius = radius,
                                 !.unit = unit, !.returns = returns]
        /\ scand' = BoundingBox(sengine, lat, lng, dlat, dlng)
        /\ sresult' = by_coordinates(scand', lat, lng, radius, unit, returns)
        /\ UNCHANGED << sengine, cvars, rvars >>

SearchNext == ByZipcode \/ ByCoordinates

(***************************************************************************)
(* The specifications.  Each runs one component; the variables of the      *)
(* other two keep their idle values.                                       *)
(***************************************************************************)
CodecInit ==
    /\ cvalue \in CodecValues
    /\ cbound = NullCell
    /\ cresult = Returned(PyNone)
    /\ cpc = "new"
    /\ ra = EmptyZipcode /\ rb = EmptyZipcode /\ rop = "idle" /\ rout = NoOut
    /\ sengine = "idle" /\ sop = "idle" /\ sarg = NoArg /\ scand = {} /\ sresult = << >>

RecordInit ==
    /\ ra \in Records
    /\ rb \in Records
    /\ rop = "none"
    /\ rout = NoOut
    /\ cvalue = PyNone /\ cbound = NullCell /\ cresult = Returned(PyNone) /\ cpc = "idle"
    /\ sengine = "idle" /\ sop = "idle" /\ sarg = NoArg /\ scand = {} /\ sresult = << >>

SearchInit ==
    /\ sengine \in { "default", "custom" }
    /\ sop = "none"
    /\ sarg = NoArg
    /\ scand = {}
    /\ sresult = << >>
    /\ cvalue = PyNone /\ cbound = NullCell /\ cresult = Returned(PyNone) /\ cpc = "idle"
    /\ ra = EmptyZipcode /\ rb = EmptyZipcode /\ rop = "idle" /\ rout = NoOut

SpecCodec == CodecInit /\ [][CodecNext]_vars

SpecRecord == RecordInit /\ [][RecordNext]_vars

SpecSearch == SearchInit /\ [][SearchNext]_vars

(***************************************************************************)
(* The properties.                                                         *)
(***************************************************************************)
RECURSIVE JsonKeyed(_)
\* Every dict in x, at any depth, has only str keys.
JsonKeyed(x) ==
    IF x.t = "list" THEN \A i \in 1..Len(x.xs) : JsonKeyed(x.xs[i])
    ELSE IF x.t = "dict" THEN
        \A i \in 1..Len(x.xs) : KeyOf(x.xs[i]).t = "str" /\ JsonKeyed(ValOf(x.xs[i]))
    ELSE TRUE

C2_EqualityByZipcode ==
    /\ rop = "eq" => rout.raised = "" /\ (rout.b <=> ra.zipcode = rb.zipcode)
    /\ rop = "hash" /\ __eq__(ra, rb).b => rout.raised = "" /\ rout.n = rout.m

\* C2's case: two records with the same zipcode and different other fields
\* were compared, and came out equal.
C2_Witness ==
    /\ rop = "eq" /\ rout.b
    /\ ra.zipcode.some /\ ra.zipcode = rb.zipcode
    /\ ra.state # rb.state /\ ra.population # rb.population

\* Lexicographic order of two strings, by code point: they agree up to a
\* position where s has ended and t has not, or where s has the smaller
\* character.
LexLess(s, t) ==
    \E k \in 1..Len(t) :
        /\ \A i \in 1..(k - 1) : i <= Len(s) /\ s[i] = t[i]
        /\ \/ k = Len(s) + 1
           \/ k <= Len(s) /\ Ord(s[k]) < Ord(t[k])

\* C3: for two records whose zipcodes are set, a < b exactly when
\* a.zipcode is lexicographically smaller, <=, > and >= agree with that
\* order, and exactly one of a < b, a == b, a > b holds.
C3_LexicographicOrder ==
    ra.zipcode.some /\ rb.zipcode.some =>
        /\ rop \in { "lt", "le", "gt", "ge" } => rout.raised = ""
        /\ rop = "lt" => (rout.b <=> LexLess(ra.zipcode.s, rb.zipcode.s))
        /\ rop = "le" => (rout.b <=> LexLess(ra.zipcode.s, rb.zipcode.s)
                                     \/ ra.zipcode.s = rb.zipcode.s)
        /\ rop = "gt" => (rout.b <=> LexLess(rb.zipcode.s, ra.zipcode.s))
        /\ rop = "ge" => (rout.b <=> LexLess(rb.zipcode.s, ra.zipcode.s)
                                     \/ ra.zipcode.s = rb.zipcode.s)
        /\ \/ __lt__(ra, rb).b /\ ~__eq__(ra, rb).b /\ ~__gt__(ra, rb).b
           \/ ~__lt__(ra, rb).b /\ __eq__(ra, rb).b /\ ~__gt__(ra, rb).b
           \/ ~__lt__(ra, rb).b /\ ~__eq__(ra, rb).b /\ __gt__(ra, rb).b

\* C3's case: "12" < "2" was evaluated and is true, though 12 > 2.
C3_Witness ==
    /\ rop = "lt" /\ rout.raised = "" /\ rout.b
    /\ ra.zipcode = Some(<< "1", "2" >>) /\ rb.zipcode = Some(<< "2" >>)

\* C4: <, <=, > and >= raise the comparison error (ValueError), and return
\* no bool, whenever the zipcode of either operand is unset.
C4_EmptyComparisonRaises ==
    rop \in { "lt", "le", "gt", "ge" } /\ (~ra.zipcode.some \/ ~rb.zipcode.some) =>
        rout.raised = "ValueError"

\* C4's case: a >= b was evaluated with the empty record on the right.
C4_Witness ==
    /\ rop = "ge" /\ ra.zipcode.some /\ ~rb.zipcode.some
    /\ rout.raised = "ValueError"

\* C7, as stated: to_json succeeds for every record and gives the key-ordered
\* mapping of all attributes, without the null ones unless include_null.
C7_ToJsonSerializes ==
    /\ rop \in { "to_json", "to_json_no_null" } => rout.raised = ""
    /\ rop = "to_json" => rout.keys = SerializableKeys
    /\ rop = "to_json_no_null" =>
          \A i \in 1..Len(SerializableKeys) :
              (\E j \in 1..Len(rout.keys) : rout.keys[j] = SerializableKeys[i])
                  <=> ~AttrIsNull(ra, SerializableKeys[i])

\* C8, as stated: state_abbr and state_long never raise, whatever the state,
\* unset included; state_abbr is the uppercase of state and state_long the
\* table's name for it, or None.
C8_DerivedStateNeverRaises ==
    /\ rop \in { "state_abbr", "state_long" } => rout.raised = ""
    /\ rop = "state_abbr" /\ ra.state.some => rout.s = Some(Upper(ra.state.s))
    /\ rop = "state_long" /\ ra.state.some =>
          rout.s = (IF Upper(ra.state.s) = << "N", "Y" >>
                       THEN Some(<< "N", "e", "w", " ", "Y", "o", "r", "k" >>)
                       ELSE None)

\* C9: bool(record) is true exactly when record.zipcode is not None.
C9_TruthinessIsZipcodeSet ==
    rop = "bool" => rout.raised = "" /\ (rout.b <=> ra.zipcode.some)

\* C9's case: a record with a zipcode, no state and population 0 is truthy.
C9_Witness ==
    /\ rop = "bool" /\ rout.b
    /\ ra.zipcode.some /\ ~ra.state.some /\ ra.population = Number(0)

\* C10: == and hash never raise; two records with no zipcode are equal and
\* hash alike; a record with no zipcode is unequal to one with a zipcode,
\* in both operand orders.
C10_EqualityIsTotal ==
    /\ rop \in { "eq", "hash" } => rout.raised = ""
    /\ rop = "eq" /\ ~ra.zipcode.some /\ ~rb.zipcode.some => rout.b
    /\ rop = "hash" /\ ~ra.zipcode.some /\ ~rb.zipcode.some => rout.n = rout.m
    /\ rop = "eq" /\ ra.zipcode.some # rb.zipcode.some => ~rout.b

\* C10's case: the empty record on the left was compared with a record
\* that has a zipcode.
C10_Witness ==
    /\ rop = "eq" /\ ~ra.zipcode.some /\ rb.zipcode.some
    /\ rout.raised = "" /\ ~rout.b

\* The rows of the table within the radius of the query last run.
InRadius ==
    { r \in RowSet(sengine) :
        /\ r.lat.some /\ r.lng.some
        /\ dist_from(r, sarg.lat, sarg.lng, sarg.unit) <= 10 * sarg.radius }

QueryDist(r) == dist_from(r, sarg.lat, sarg.lng, sarg.unit)

\* r comes before o: nearer, or as near with the smaller zipcode.
ComesBefore(r, o) ==
    \/ QueryDist(r) < QueryDist(o)
    \/ QueryDist(r) = QueryDist(o) /\ LexLess(r.zipcode.s, o.zipcode.s)

C6_ByZipcode ==
    sop = "by_zipcode" =>
        /\ Len(sresult) = 1
        /\ \A i \in 1..Len(Dataset) :
              Dataset[i].zipcode = Some(sarg.code) => sresult[1] = Dataset[i]
        /\ (\A i \in 1..Len(Dataset) : Dataset[i].zipcode # Some(sarg.code)) =>
              sresult[1] = EmptyZipcode /\ ~__bool__(sresult[1]).b

\* C6's case: an engine built on a caller's engine was asked for "10001"
\* and returned the row of state NY.
C6_Witness ==
    /\ sop = "by_zipcode" /\ sengine = "custom"
    /\ sarg.code = << "1", "0", "0", "0", "1" >>
    /\ sresult[1].state = Some(<< "N", "Y" >>)

=============================================================================
